---- MODULE Spec2Model ----
(***************************************************************************)
(* Atmospheric water generator: the two sweep programs of the repository,  *)
(* final.py (sweep over refrigerant mass flow, minimum-error selection)    *)
(* and vcr_cycle.py (sweep over dry-air mass flow, maximum water per kWh). *)
(*                                                                         *)
(* Floats are exact rationals [n, d] in lowest terms with d > 0; the       *)
(* record with d = 0 is NaN.  Temperatures are whole degrees.  CoolProp,   *)
(* psychrolib and numpy are outside the repository: each call is modelled  *)
(* by a coarse monotone correlation with the sign behaviour of the real    *)
(* one, at the place where the code calls it.                              *)
(***************************************************************************)
EXTENDS Integers, Sequences, FiniteSets, TLC

\* ------------------------------------------------------------ bounds
\* Number of candidate mass flows of a sweep (200 in final.py, 49 in vcr_cycle.py).
NumCandidates == 4

\* ------------------------------------------------- float arithmetic
Abs(x) == IF x < 0 THEN -x ELSE x

RECURSIVE GCD(_, _)
GCD(a, b) == IF b = 0 THEN a ELSE GCD(b, a % b)

NaN == [n |-> 0, d |-> 0]

IsNaN(a) == a.d = 0

Rat(n, d) ==
    IF d = 0 THEN NaN
    ELSE LET s == IF d < 0 THEN -1 ELSE 1
             g == GCD(Abs(n), Abs(d))
         IN  [n |-> (s * n) \div g, d |-> (s * d) \div g]

RInt(k) == [n |-> k, d |-> 1]

RMul(a, b) ==
    IF IsNaN(a) \/ IsNaN(b) THEN NaN
    ELSE LET g1 == GCD(Abs(a.n), b.d)
             g2 == GCD(Abs(b.n), a.d)
         IN  Rat((a.n \div g1) * (b.n \div g2), (a.d \div g2) * (b.d \div g1))

RDiv(a, b) ==
    IF IsNaN(a) \/ IsNaN(b) \/ b.n = 0 THEN NaN
    ELSE RMul(a, Rat(b.d, b.n))

RAdd(a, b) ==
    IF IsNaN(a) \/ IsNaN(b) THEN NaN
    ELSE LET g == GCD(a.d, b.d)
         IN  Rat(a.n * (b.d \div g) + b.n * (a.d \div g), (a.d \div g) * b.d)

RNeg(a) == IF IsNaN(a) THEN NaN ELSE [n |-> -a.n, d |-> a.d]

RSub(a, b) == RAdd(a, RNeg(b))

RAbs(a) == IF IsNaN(a) THEN NaN ELSE [n |-> Abs(a.n), d |-> a.d]

\* Comparisons with NaN are false, as for IEEE floats.
RGt0(a) == ~IsNaN(a) /\ a.n > 0

RLe0(a) == ~IsNaN(a) /\ a.n <= 0

RLt0(a) == ~IsNaN(a) /\ a.n < 0

RLt(a, b) == RLt0(RSub(a, b))

RLe(a, b) == RLe0(RSub(a, b))

RFloor(a) == a.n \div a.d

\* Python's max(a, b) and np.clip on floats that are not NaN.
RMax(a, b) == IF RLt(a, b) THEN b ELSE a

RMin(a, b) == IF RLt(b, a) THEN b ELSE a

RClip(x, lo, hi) == RMin(RMax(x, lo), hi)

\* np.round(x, 2)
RRound2(x) == Rat(RFloor(RAdd(RMul(x, RInt(100)), Rat(1, 2))), 100)

\* ------------------------------------------------ program constants
COND_AMB_OFFSET == 3

U == 80

A == 1

L_vap == 2450000

D_tube == Rat(1, 100)

air_speed == 2

\* np.pi
Pi == Rat(22, 7)

\* A_tube = (np.pi * D_tube**2 / 4) * N_evaporator, for N parallel evaporators
A_tubeOf(N) == RMul(RDiv(RMul(Pi, RMul(D_tube, D_tube)), RInt(4)), RInt(N))

\* The hardcoded fallback reading of fetch_weather: 32.0 C, 101325.0 Pa, 0.7
DefaultWeather == [T |-> 32, P |-> 101325, RH |-> Rat(7, 10)]

\* ------------------------------------------------ psychrolib (external)
\* Dew point: about one degree below dry bulb per 5 % of relative humidity.
GetTDewPointFromRelHum(T, RH) == T - RFloor(RMul(RSub(RInt(1), RH), RInt(20)))

\* Saturation humidity ratio (kg/kg), increasing in temperature.
SatHumRatio(T) == Rat((T * T) \div 40 + 5, 1000)

\* Humidity ratio of air at (T, RH): the saturation ratio at its dew point.
GetHumRatioFromRelHum(T, RH, P) == SatHumRatio(GetTDewPointFromRelHum(T, RH))

\* Moist-air enthalpy, J per kg dry air.
GetMoistAirEnthalpy(T, omega) ==
    RAdd(RInt(1006 * T), RMul(omega, RInt(2501000 + 1860 * T)))

\* Moist-air density (kg/m3) from the ideal-gas law, to two decimals.
GetMoistAirDensity(T, omega, P) == Rat((P * 100) \div (287 * (T + 273)), 100)

\* ------------------------------------------------- CoolProp (external)
\* Arguments are kelvin temperatures; P in kPa-steps, H in J/kg.
PropsSI_P_sat(TK) == RInt(1000 * (290 + 15 * (TK - 273)))

PropsSI_H_vap(TK) == RInt(1000 * (400 + (6 * (TK - 273)) \div 10))

PropsSI_S_vap(TK) == RInt(1720 - (TK - 273))

PropsSI_H_liq(TK) == RInt(1000 * (200 + (14 * (TK - 273)) \div 10))

\* Enthalpy after isentropic compression of saturated vapour of entropy s to
\* pressure P: above the vapour's own enthalpy exactly when P is above its
\* saturation pressure.
PropsSI_H_PS(P, s) ==
    LET Tc == (RFloor(P) \div 1000 - 290) \div 15
        Te == 1720 - RFloor(s)
    IN  RAdd(PropsSI_H_vap(Te + 273), RInt(700 * (Tc - Te)))

\* Dynamic viscosity (Pa s) of the saturated refrigerant vapour and of air.
PropsSI_V_ref(TK) == Rat(1, 100000)

PropsSI_V_air(TK, P) == Rat(18, 1000000)

\* np.exp(-x) to two decimals.
ExpNeg(x) ==
    LET c == RFloor(RMul(x, RInt(100)))
    IN  Rat(10000 \div (100 + c + (c * c) \div 200), 100)

\* ----------------------------------------------------- pure functions
\* The correlation without its clamp.
isentropic_effUnclipped(PR) ==
    RSub(Rat(78, 100), RMul(Rat(3, 100), RMax(RInt(0), RSub(PR, RInt(2)))))

\* final.py isentropic_eff / vcr_cycle.py estimate_isentropic_efficiency
isentropic_eff(PR) ==
    RClip(RSub(Rat(78, 100), RMul(Rat(3, 100), RMax(RInt(0), RSub(PR, RInt(2))))),
          Rat(60, 100), Rat(85, 100))

estimate_isentropic_efficiency(pressure_ratio) ==
    RClip(RSub(Rat(78, 100),
               RMul(Rat(3, 100), RMax(RInt(0), RSub(pressure_ratio, RInt(2))))),
          Rat(60, 100), Rat(85, 100))

\* "Laminar" if Re < 2300 else "Transitional" if Re < 4000 else "Turbulent"
Regime(Re) ==
    IF RLt(Re, RInt(2300)) THEN "Laminar"
    ELSE IF RLt(Re, RInt(4000)) THEN "Transitional"
    ELSE "Turbulent"

\* ------------------------------------------------------------- state
VARIABLES
    prog,             \* which script runs: "final" or "vcr"
    EVAP_DEW_OFFSET,  \* editable design default, -10 as shipped
    N_evaporator,     \* editable design default, 1 as shipped
    OWM_API_KEY,      \* TRUE when the environment holds a key
    apiResponse,      \* what the HTTP call would do: "ok" or "fail"
    manualInput,      \* input_data.csv (final) or the console (vcr)
    propFail,         \* which external property lookup raises, if any
    pc,               \* position of the run
    tried,            \* weather sources attempted, in order
    weather,          \* the triple (T_ambient, P_ambient, RH) obtained
    run,              \* flow-independent locals of run() / run_simulation()
    iter,             \* number of candidates the loop has consumed
    results,          \* the sweep table built so far
    csvWritten,       \* the results file has been written
    report,           \* what the run printed about the optimum
    eff               \* two pressure ratios and the efficiencies computed for them

vars == <<prog, EVAP_DEW_OFFSET, N_evaporator, OWM_API_KEY, apiResponse,
          manualInput, propFail, pc, tried, weather, run, iter, results,
          csvWritten, report, eff>>

inputs == <<prog, EVAP_DEW_OFFSET, N_evaporator, OWM_API_KEY, apiResponse,
            manualInput, propFail>>

\* data["main"] of a successful API response: temp (C), pressure (hPa), humidity (%)
ApiData == [temp |-> 30, pressure |-> 1000, humidity |-> 100]

\* The one data row of a well-formed manual reading.
ManualRow == [T |-> 20, P |-> 101000, RH |-> Rat(1, 2)]

NoWeather == [T |-> 0, P |-> 0, RH |-> NaN]

NoReport == [kind |-> "none", idx |-> 0]

\* No efficiency evaluated on its own.
NoEff == [a |-> NaN, b |-> NaN, final_a |-> NaN, final_b |-> NaN,
          vcr_a |-> NaN, vcr_b |-> NaN]

RunZero ==
    [T_dew |-> 0, T_evap_air |-> 0, T_cond |-> 0,
     omega_in |-> NaN, omega_out |-> NaN, h_in |-> NaN, h_out |-> NaN,
     m_da |-> NaN, P_evap |-> NaN, P_cond |-> NaN,
     h1 |-> NaN, s1 |-> NaN, h3 |-> NaN, h4 |-> NaN, h2 |-> NaN,
     q_evap |-> NaN, mu_ref |-> NaN, A_tube |-> NaN,
     Re |-> NaN, water |-> NaN, Q_required |-> NaN, NTU |-> NaN, eps |-> NaN]

\* The sweep values: np.round(np.arange(0.1, ..., 0.1), 1), ascending.
m_ref_vals == [k \in 1..NumCandidates |-> Rat(k, 10)]

m_vals == [k \in 1..NumCandidates |-> Rat(k, 10)]

Init ==
    /\ prog \in {"final", "vcr"}
    /\ EVAP_DEW_OFFSET \in {-10, 5}
    /\ N_evaporator \in {1, 400}
    /\ OWM_API_KEY \in BOOLEAN
    /\ apiResponse \in {"ok", "fail"}
    /\ manualInput \in {"missing", "empty", "garbled", "valid"}
    /\ propFail \in {"none", "psychro", "refrigerant", "h2s"}
    /\ pc = "fetch"
    /\ tried = <<>>
    /\ weather = NoWeather
    /\ run = RunZero
    /\ iter = 0
    /\ results = <<>>
    /\ csvWritten = FALSE
    /\ report = NoReport
    /\ eff = NoEff

\* ---------------------------------------------------- weather (final)
\* final.py imports os, numpy, pandas, requests, CoolProp, dotenv and
\* psychrolib; the name csv that fetch_weather uses is never imported.
CsvImported == FALSE

\* The triple built from a successful response.
FromApi(data) ==
    [T |-> data.temp, P |-> data.pressure * 100, RH |-> Rat(data.humidity, 100)]

\* fetch_weather, the API attempt: returns on success, falls through otherwise.
F_FetchApi ==
    /\ prog = "final" /\ pc = "fetch"
    /\ IF OWM_API_KEY
         THEN /\ tried' = Append(tried, "api")
              /\ IF apiResponse = "ok"
                   THEN weather' = FromApi(ApiData) /\ pc' = "setup"
                   ELSE weather' = weather /\ pc' = "manual"
         ELSE tried' = tried /\ weather' = weather /\ pc' = "manual"
    /\ UNCHANGED <<eff, inputs, run, iter, results, csvWritten, report>>

\* What the try block of the manual fallback does: "raise" for any exception
\* (missing file, NameError on csv, unparsable value), "none" when the reader
\* yields no row and the function falls off its end, else the first row.
ManualTry ==
    IF manualInput = "missing" THEN "raise"
    ELSE IF ~CsvImported THEN "raise"
    ELSE IF manualInput = "empty" THEN "none"
    ELSE IF manualInput = "garbled" THEN "raise"
    ELSE "row"

\* fetch_weather, the manual fallback and its except clause; a None result
\* fails the caller's tuple unpacking.
F_FetchManual ==
    /\ prog = "final" /\ pc = "manual"
    /\ CASE ManualTry = "row" ->
              /\ tried' = Append(tried, "manual")
              /\ weather' = ManualRow /\ pc' = "setup"
         [] ManualTry = "none" ->
              /\ tried' = Append(tried, "manual")
              /\ weather' = weather /\ pc' = "failed"
         [] OTHER ->
              /\ tried' = tried \o <<"manual", "default">>
              /\ weather' = DefaultWeather /\ pc' = "setup"
    /\ UNCHANGED <<eff, inputs, run, iter, results, csvWritten, report>>

\* ------------------------------------------------------ weather (vcr)
\* run_simulation's try: fetch_weather_openweathermap raises without a key
\* or on any HTTP failure.
V_FetchApi ==
    /\ prog = "vcr" /\ pc = "fetch"
    /\ tried' = Append(tried, "api")
    /\ IF OWM_API_KEY /\ apiResponse = "ok"
         THEN weather' = FromApi(ApiData) /\ pc' = "setup"
         ELSE weather' = weather /\ pc' = "manual"
    /\ UNCHANGED <<eff, inputs, run, iter, results, csvWritten, report>>

\* run_simulation's except: three float(input(...)) with no handler of their
\* own; anything but three parsable values raises out of run_simulation.
V_Input ==
    /\ prog = "vcr" /\ pc = "manual"
    /\ tried' = Append(tried, "manual")
    /\ IF manualInput = "valid"
         THEN weather' = ManualRow /\ pc' = "setup"
         ELSE weather' = weather /\ pc' = "failed"
    /\ UNCHANGED <<eff, inputs, run, iter, results, csvWritten, report>>

\* -------------------------------------------------------- final.run()
\* Everything run() computes before its loop.  The quotient of line 257 and
\* the products below are exact, so the order of evaluation does not matter.
FinalLocals(w) ==
    LET T_amb      == w.T
        T_dew      == GetTDewPointFromRelHum(T_amb, w.RH)
        T_evap_air == T_dew + EVAP_DEW_OFFSET
        T_cond     == T_amb + COND_AMB_OFFSET
        omega_in   == GetHumRatioFromRelHum(T_amb, w.RH, w.P)
        omega_out  == GetHumRatioFromRelHum(T_evap_air, RInt(1), w.P)
        h_in       == GetMoistAirEnthalpy(T_amb, omega_in)
        h_out      == GetMoistAirEnthalpy(T_evap_air, omega_out)
        cp_moist   == RAdd(RInt(1005), RMul(omega_in, RInt(1860)))
        rho_air    == GetMoistAirDensity(T_amb, omega_in, w.P)
        m_da       == RRound2(RMul(RMul(rho_air, RInt(air_speed)), Rat(1, 10)))
        T_evap_K   == T_evap_air + 273
        T_cond_K   == T_cond + 273
        P_evap     == PropsSI_P_sat(T_evap_K)
        P_cond     == PropsSI_P_sat(T_cond_K)
        h1         == PropsSI_H_vap(T_evap_K)
        s1         == PropsSI_S_vap(T_evap_K)
        h3         == PropsSI_H_liq(T_cond_K)
        h4         == h3
        PR         == RDiv(P_cond, P_evap)
        eta        == isentropic_eff(PR)
        h2s        == PropsSI_H_PS(P_cond, s1)
        h2         == RAdd(h1, RDiv(RSub(h2s, h1), eta))
        q_evap     == RSub(h1, h4)
        mu_ref     == PropsSI_V_ref(T_evap_K)
        A_tube     == A_tubeOf(N_evaporator)
        mu_air     == PropsSI_V_air(T_amb + 273, w.P)
        velocity   == RDiv(m_da, RMul(rho_air, A_tube))
        Re         == RDiv(RMul(RMul(rho_air, velocity), D_tube), mu_air)
        T_target   == T_dew - 5
        Q_s        == RMul(RMul(m_da, cp_moist), RInt(T_amb - T_target))
        water      == RMul(m_da, RSub(omega_in, omega_out))
        Q_l        == RMul(water, RInt(L_vap))
        Q_required == RAdd(Q_s, Q_l)
        C_air      == RMul(m_da, cp_moist)
        NTU        == RDiv(RInt(U * A), C_air)
        eps        == RSub(RInt(1), ExpNeg(NTU))
    IN  [T_dew |-> T_dew, T_evap_air |-> T_evap_air, T_cond |-> T_cond,
         omega_in |-> omega_in, omega_out |-> omega_out,
         h_in |-> h_in, h_out |-> h_out, m_da |-> m_da,
         P_evap |-> P_evap, P_cond |-> P_cond,
         h1 |-> h1, s1 |-> s1, h3 |-> h3, h4 |-> h4, h2 |-> h2,
         q_evap |-> q_evap, mu_ref |-> mu_ref, A_tube |-> A_tube,
         Re |-> Re, water |-> water, Q_required |-> Q_required,
         NTU |-> NTU, eps |-> eps]

\* A setup that carries on with its values although a lookup has failed.
F_SetupSubstitute ==
    /\ prog = "final" /\ pc = "setup"
    /\ run' = FinalLocals(weather) /\ pc' = "sweep"
    /\ UNCHANGED <<eff, inputs, tried, weather, iter, results, csvWritten, report>>

\* run() up to the loop: no property lookup is guarded, so any failure of
\* psychrolib or CoolProp raises out of run().
F_Setup ==
    /\ prog = "final" /\ pc = "setup"
    /\ IF propFail = "none"
         THEN run' = FinalLocals(weather) /\ pc' = "sweep"
         ELSE run' = run /\ pc' = "failed"
    /\ UNCHANGED <<eff, inputs, tried, weather, iter, results, csvWritten, report>>

\* COP = Q_actual / W_comp if W_comp > 0 else np.nan
FinalCOP(Q_actual, W_comp) ==
    IF RGt0(W_comp) THEN RDiv(Q_actual, W_comp) ELSE NaN

\* water_hr = water * 3600, with no clamp
FinalWaterHr(water) == RMul(water, RInt(3600))

\* The regime written to a row: line 258 classifies Re, the air-side Reynolds
\* number computed before the loop, not the row's Re_ref.
FinalRowRegime(Re, Re_ref) == Regime(Re)

\* One row of the table, for candidate m_ref.
FinalRow(m_ref) ==
    LET Q_ref         == RMul(m_ref, run.q_evap)
        Q_actual      == RMul(run.eps, Q_ref)
        W_comp        == RMul(m_ref, RSub(run.h2, run.h1))
        COP           == FinalCOP(Q_actual, W_comp)
        error         == RAbs(RSub(Q_actual, run.Q_required))
        water_hr      == FinalWaterHr(run.water)
        water_per_kWh == IF RGt0(W_comp)
                           THEN RDiv(water_hr, RDiv(W_comp, RInt(1000)))
                           ELSE NaN
        Re_ref        == RDiv(RDiv(RMul(m_ref, D_tube), run.mu_ref), run.A_tube)
        regime_ref    == FinalRowRegime(run.Re, Re_ref)
    IN  [m_ref |-> m_ref, m_da |-> run.m_da, Q_W |-> Q_actual,
         Q_required |-> run.Q_required, Error |-> error,
         water_kg_hr |-> water_hr, water_kg_per_kWh |-> water_per_kWh,
         W_comp |-> W_comp, COP |-> COP, Re |-> Re_ref,
         flow_regime |-> regime_ref]

\* A loop that skips the candidates whose COP is not a positive number.
SweepAppendDrop(table, row) == IF RGt0(row.COP) THEN Append(table, row) ELSE table

\* results.append(row)
SweepAppend(table, row) == Append(table, row)

\* One iteration of "for m_ref in m_ref_vals".
F_SweepStep ==
    /\ prog = "final" /\ pc = "sweep"
    /\ iter < NumCandidates
    /\ results' = SweepAppend(results, FinalRow(m_ref_vals[iter + 1]))
    /\ iter' = iter + 1
    /\ UNCHANGED <<eff, inputs, pc, tried, weather, run, csvWritten, report>>

\* After the loop: the DataFrame is built, written and returned.
F_Export ==
    /\ prog = "final" /\ pc = "sweep"
    /\ iter = NumCandidates
    /\ csvWritten' = TRUE
    /\ pc' = "main"
    /\ UNCHANGED <<eff, inputs, tried, weather, run, iter, results, report>>

\* A scan that keeps the last of several equal minima (<= where < is meant).
IdxMinLast(col) ==
    CHOOSE a \in 1..Len(col) :
        /\ \A b \in 1..Len(col) : RLe(col[a], col[b])
        /\ \A b \in (a + 1)..Len(col) : RLt(col[a], col[b])

\* Series.idxmin(): the first position holding the least value.
IdxMin(col) ==
    CHOOSE a \in 1..Len(col) :
        /\ \A b \in 1..Len(col) : RLe(col[a], col[b])
        /\ \A b \in 1..(a - 1) : RLt(col[a], col[b])

Column(table, f) == [k \in 1..Len(table) |-> table[k][f]]

\* __main__: best = df.loc[df["Error"].idxmin()], then the summary is printed.
F_Main ==
    /\ prog = "final" /\ pc = "main"
    /\ report' = [kind |-> "optimum", idx |-> IdxMin(Column(results, "Error"))]
    /\ pc' = "done"
    /\ UNCHANGED <<eff, inputs, tried, weather, run, iter, results, csvWritten>>

\* ------------------------------------------- vcr_cycle.run_simulation()
\* Everything run_simulation() computes between the weather and the loop.
VcrLocals(w) ==
    LET Tdb            == w.T
        T_dew          == GetTDewPointFromRelHum(Tdb, w.RH)
        T_evap_air_C   == T_dew + EVAP_DEW_OFFSET
        T_cond_C       == w.T + COND_AMB_OFFSET
        omega_in       == GetHumRatioFromRelHum(Tdb, w.RH, w.P)
        omega_sat_evap == GetHumRatioFromRelHum(T_evap_air_C, RInt(1), w.P)
        h_in           == GetMoistAirEnthalpy(Tdb, omega_in)
        h_out_saturated == GetMoistAirEnthalpy(T_evap_air_C, omega_sat_evap)
        T_evap_R_K     == T_evap_air_C + 273
        T_cond_R_K     == T_cond_C + 273
        h3             == PropsSI_H_liq(T_cond_R_K)
    IN  [RunZero EXCEPT
           !.T_dew = T_dew, !.T_evap_air = T_evap_air_C, !.T_cond = T_cond_C,
           !.omega_in = omega_in, !.omega_out = omega_sat_evap,
           !.h_in = h_in, !.h_out = h_out_saturated,
           !.P_evap = PropsSI_P_sat(T_evap_R_K),
           !.P_cond = PropsSI_P_sat(T_cond_R_K),
           !.h1 = PropsSI_H_vap(T_evap_R_K), !.s1 = PropsSI_S_vap(T_evap_R_K),
           !.h3 = h3, !.h4 = h3]

\* Lines 118-159: the psychrometric and saturation lookups are unguarded.
V_Setup ==
    /\ prog = "vcr" /\ pc = "setup"
    /\ IF propFail \in {"psychro", "refrigerant"}
         THEN run' = run /\ pc' = "failed"
         ELSE run' = VcrLocals(weather) /\ pc' = "sweep"
    /\ UNCHANGED <<eff, inputs, tried, weather, iter, results, csvWritten, report>>

\* A water rate taken per kg of dry air, without the air flow.
VcrWaterHrPerKg(m_da) ==
    RMax(RInt(0), RMul(RSub(run.omega_in, run.omega_out), RInt(3600)))

\* water_kg_hr = max(0.0, m_da * (omega_in - omega_sat_evap) * 3600.0)
VcrWaterHr(m_da) ==
    RMax(RInt(0), RMul(RMul(m_da, RSub(run.omega_in, run.omega_out)), RInt(3600)))

\* The row appended when Q_dot_air_W <= 0 (lines 164-175); h2s is a column
\* the row does not set, which the DataFrame fills with NaN.
VcrSkipRow(m_da, Q_dot_air_W) ==
    [m_dot_da_kg_s |-> m_da, Q_dot_air_W |-> Q_dot_air_W,
     m_ref_kg_s |-> RInt(0), W_comp_W |-> RInt(0), COP |-> RInt(0),
     water_kg_hr |-> VcrWaterHr(m_da), water_kg_per_kWh |-> RInt(0),
     h2s_Jkg |-> NaN]

\* An except clause that substitutes a number instead of NaN.
VcrH2sZero == IF propFail = "h2s" THEN RInt(0) ELSE PropsSI_H_PS(run.P_cond, run.s1)

\* try: h2s = PropsSI(...)  except: h2s = float("nan")
VcrH2s == IF propFail = "h2s" THEN NaN ELSE PropsSI_H_PS(run.P_cond, run.s1)

\* The row appended otherwise (lines 177-237).
VcrFullRow(m_da, Q_dot_air_W) ==
    LET h2s  == VcrH2s
        PR   == IF RGt0(run.P_evap) THEN RDiv(run.P_cond, run.P_evap) ELSE RInt(1)
        eta_isentropic == estimate_isentropic_efficiency(PR)
        h2   == RAdd(run.h1, RDiv(RSub(h2s, run.h1), eta_isentropic))
        q_evap_specific == RSub(run.h1, run.h4)
        ok     == ~RLe0(q_evap_specific)
        m_ref  == IF ok THEN RDiv(Q_dot_air_W, q_evap_specific) ELSE NaN
        W_comp == IF ok THEN RMul(m_ref, RSub(h2, run.h1)) ELSE NaN
        COP    == IF ok /\ RGt0(W_comp) THEN RDiv(Q_dot_air_W, W_comp) ELSE NaN
        energy_kW == IF RGt0(W_comp) THEN RDiv(W_comp, RInt(1000)) ELSE NaN
        water_kg_hr == VcrWaterHr(m_da)
        water_kg_per_kWh == IF RGt0(energy_kW)
                              THEN RDiv(water_kg_hr, energy_kW) ELSE NaN
    IN  [m_dot_da_kg_s |-> m_da, Q_dot_air_W |-> Q_dot_air_W,
         m_ref_kg_s |-> m_ref, W_comp_W |-> W_comp, COP |-> COP,
         water_kg_hr |-> water_kg_hr, water_kg_per_kWh |-> water_kg_per_kWh,
         h2s_Jkg |-> h2s]

VcrRow(m_da) ==
    LET Q_dot_air_W == RMul(m_da, RSub(run.h_in, run.h_out))
    IN  IF RLe0(Q_dot_air_W) THEN VcrSkipRow(m_da, Q_dot_air_W)
        ELSE VcrFullRow(m_da, Q_dot_air_W)

\* One iteration of "for m_da in m_vals".
V_SweepStep ==
    /\ prog = "vcr" /\ pc = "sweep"
    /\ iter < NumCandidates
    /\ results' = SweepAppend(results, VcrRow(m_vals[iter + 1]))
    /\ iter' = iter + 1
    /\ UNCHANGED <<eff, inputs, pc, tried, weather, run, csvWritten, report>>

\* df_valid: rows whose water_kg_per_kWh is not null and positive.
VcrValid(table) == {k \in 1..Len(table) : RGt0(table[k].water_kg_per_kWh)}

\* The rows sort_values(descending) may put first: sort_values sorts with an
\* unstable quicksort, so any row holding the greatest value may lead.
VcrBest(table) ==
    {k \in VcrValid(table) :
        \A j \in VcrValid(table) :
            RLe(table[j].water_kg_per_kWh, table[k].water_kg_per_kWh)}

\* Lines 239-255: the table is written, then the best row or the message
\* "No valid results to determine best mass flow." is printed.
V_Finish ==
    /\ prog = "vcr" /\ pc = "sweep"
    /\ iter = NumCandidates
    /\ csvWritten' = TRUE
    /\ IF VcrValid(results) # {}
         THEN \E k \in VcrBest(results) : report' = [kind |-> "optimum", idx |-> k]
         ELSE report' = [kind |-> "no_valid", idx |-> 0]
    /\ pc' = "done"
    /\ UNCHANGED <<eff, inputs, tried, weather, run, iter, results>>

\* ------------------------------------------------------ specification
NextSweep == F_SweepStep \/ F_Export \/ F_Main

Next ==
    \/ F_FetchApi \/ F_FetchManual \/ F_Setup
    \/ NextSweep
    \/ V_FetchApi \/ V_Input \/ V_Setup \/ V_SweepStep \/ V_Finish

Spec == Init /\ [][Next]_vars

\* A sweep of final.run() over hand-constructed run-level values: the
\* specific refrigeration effect, the effectiveness, the required load and
\* the specific compressor work are given, the loop and the selection run.
HandLocals(q, e, Qreq, w) ==
    [RunZero EXCEPT
       !.q_evap = RInt(q), !.eps = e, !.Q_required = Qreq,
       !.h1 = RInt(0), !.h2 = RInt(w), !.water = Rat(1, 1000),
       !.m_da = Rat(23, 100), !.mu_ref = PropsSI_V_ref(0),
       !.A_tube = A_tubeOf(1), !.Re = RInt(5000)]

InitHand ==
    /\ prog = "final"
    /\ EVAP_DEW_OFFSET = -10
    /\ N_evaporator = 1
    /\ OWM_API_KEY = FALSE
    /\ apiResponse = "fail"
    /\ manualInput = "missing"
    /\ propFail = "none"
    /\ pc = "sweep"
    /\ tried = <<"manual", "default">>
    /\ weather = DefaultWeather
    /\ \E q \in {20, 40}, e \in {Rat(1, 4), Rat(1, 2)},
          k \in 0..(2 * NumCandidates + 2), w \in {-1000, 0, 1000} :
          run = HandLocals(q, e, Rat(k, 2), w)
    /\ iter = 0
    /\ results = <<>>
    /\ csvWritten = FALSE
    /\ report = NoReport
    /\ eff = NoEff

SpecHand == InitHand /\ [][NextSweep]_vars

\* The efficiency functions on their own: two pressure ratios k / EffDen with
\* 0 <= k <= EffMaxPR * EffDen are given, and both functions are applied to each.
EffMaxPR == 10

EffDen == 4

EffInputs == {Rat(k, EffDen) : k \in 0..(EffMaxPR * EffDen)}

InitEta ==
    /\ prog = "final"
    /\ EVAP_DEW_OFFSET = -10
    /\ N_evaporator = 1
    /\ OWM_API_KEY = FALSE
    /\ apiResponse = "fail"
    /\ manualInput = "missing"
    /\ propFail = "none"
    /\ pc = "eta"
    /\ tried = <<>>
    /\ weather = NoWeather
    /\ run = RunZero
    /\ iter = 0
    /\ results = <<>>
    /\ csvWritten = FALSE
    /\ report = NoReport
    /\ \E a \in EffInputs, b \in EffInputs : eff = [NoEff EXCEPT !.a = a, !.b = b]

\* eta = isentropic_eff(PR) / eta_isentropic = estimate_isentropic_efficiency(PR)
ApplyEff ==
    /\ pc = "eta"
    /\ eff' = [eff EXCEPT
                 !.final_a = isentropic_eff(eff.a),
                 !.final_b = isentropic_eff(eff.b),
                 !.vcr_a = estimate_isentropic_efficiency(eff.a),
                 !.vcr_b = estimate_isentropic_efficiency(eff.b)]
    /\ pc' = "eta_done"
    /\ UNCHANGED <<inputs, tried, weather, run, iter, results, csvWritten, report>>

SpecEta == InitEta /\ [][ApplyEff]_vars

\* ============================================================ claims
\* Row fields under the names the two tables give them.
RowSwept(row) == IF prog = "final" THEN row.m_ref ELSE row.m_dot_da_kg_s

RowQ(row) == IF prog = "final" THEN row.Q_W ELSE row.Q_dot_air_W

RowW(row) == IF prog = "final" THEN row.W_comp ELSE row.W_comp_W

Candidates == IF prog = "final" THEN m_ref_vals ELSE m_vals

Rows == 1..Len(results)

\* The run has got past the pre-loop computations.
InSweep == pc \in {"sweep", "main", "done"}

\* ---- C1
C1_Selected ==
    (prog = "final" /\ pc = "done") =>
        /\ report.kind = "optimum"
        /\ report.idx \in Rows
        /\ \A j \in Rows : RLe(results[report.idx].Error, results[j].Error)
        /\ \A j \in Rows :
              results[j].Error = results[report.idx].Error =>
                  /\ report.idx <= j
                  /\ RLe(results[report.idx].m_ref, results[j].m_ref)

\* C1: when final.run() and its selection have finished, the selected row has
\* the least Error of the table, among rows of equal least Error it is the
\* first, which has the smallest m_ref, and the selection step changes no row.
C1_MinErrorFirst ==
    /\ []C1_Selected
    /\ [][(prog = "final" /\ pc = "main") => results' = results]_vars

\* Two rows tie on the least Error and the earlier one, not the first row of
\* the table, is selected.
C1_TieWitness ==
    /\ prog = "final" /\ pc = "done"
    /\ report.idx > 1
    /\ \E j \in Rows : j > report.idx /\ results[j].Error = results[report.idx].Error

\* ---- C2
\* C2: a finished run in which no row has W_comp > 0 reports that no valid
\* optimum exists and does not present a row as the optimum.
C2_NoValidOptimum ==
    (pc = "done" /\ \A k \in Rows : ~RGt0(RowW(results[k]))) =>
        report.kind = "no_valid"

\* ---- C3
C3_Table ==
    /\ Len(results) = iter
    /\ \A k \in Rows : RowSwept(results[k]) = Candidates[k]
    /\ \A k \in 1..(Len(results) - 1) :
          RLt(RowSwept(results[k]), RowSwept(results[k + 1]))
    /\ (pc \in {"main", "done"} => Len(results) = NumCandidates)

C4_FirstSuccessWins ==
    (prog = "final" /\ pc = "setup") =>
        /\ \E n \in 0..3 : \/ tried = SubSeq(<<"api", "manual", "default">>, 1, n)
                           \/ tried = SubSeq(<<"manual", "default">>, 1, n)
        /\ (manualInput = "valid" /\ ~(OWM_API_KEY /\ apiResponse = "ok"))
              => weather = ManualRow
        /\ weather = DefaultWeather => manualInput # "valid"

\* ---- C5
\* C5: no run ends in an error before it holds a weather triple, whatever the
\* API and the manual input do.
C5_WeatherNeverFatal == ~(pc = "failed" /\ weather = NoWeather)

\* ---- C6
\* C6: no row reports a negative water_kg_hr, and the rate is zero whenever
\* omega_in <= omega_out.
C6_WaterNonNegative ==
    \A k \in Rows :
        /\ ~RLt0(results[k].water_kg_hr)
        /\ RLe(run.omega_in, run.omega_out) => results[k].water_kg_hr = RInt(0)

\* ---- C7
\* C7: in every row COP is Q_actual / W_comp when W_comp > 0 and NaN
\* otherwise; no row with W_comp <= 0 carries a number as its COP.
C7_COPDefinedIffWork ==
    \A k \in Rows :
        IF RGt0(RowW(results[k]))
          THEN results[k].COP = RDiv(RowQ(results[k]), RowW(results[k]))
          ELSE IsNaN(results[k].COP)

\* ---- C8
\* C8: a run whose evaporator temperature is not below its condenser
\* temperature produces no sweep row.
C8_InvalidCycleStops ==
    (InSweep /\ run.T_evap_air >= run.T_cond) => results = <<>>

C10_RegimeOfOwnRe ==
    prog = "final" => \A k \in Rows : results[k].flow_regime = Regime(results[k].Re)

C12_ObjectiveIndependentOfFlow ==
    prog = "vcr" =>
        /\ \A k \in Rows : \A j \in Rows :
              (RGt0(results[k].W_comp_W) /\ RGt0(results[j].W_comp_W)) =>
                  /\ RMul(results[k].water_kg_hr, results[j].W_comp_W)
                        = RMul(results[j].water_kg_hr, results[k].W_comp_W)
                  /\ results[k].water_kg_per_kWh = results[j].water_kg_per_kWh
                  /\ results[k].COP = results[j].COP
        /\ (pc = "done" /\ report.kind = "optimum") =>
              /\ report.idx \in VcrValid(results)
              /\ \A k \in VcrValid(results) :
                    results[k].water_kg_per_kWh = results[report.idx].water_kg_per_kWh

\* A finished sweep in which every row is valid, water is produced, and the
\* row printed as best is not the first one.
C12_AllRowsTie ==
    /\ prog = "vcr" /\ pc = "done" /\ report.kind = "optimum"
    /\ report.idx > 1
    /\ VcrValid(results) = Rows
    /\ \A k \in Rows : RGt0(results[k].water_kg_hr) /\ RGt0(results[k].W_comp_W)

====
